---- MODULE Spec2Model ----
(***************************************************************************)
(* solve_vrp of FINAL_project.py (base formulation) and module4.py         *)
(* (balanced formulation): a vehicle routing problem is written down as a  *)
(* mixed-integer program, handed to the solver, and the solved arc values  *)
(* are decoded into routes and metrics.                                    *)
(*                                                                         *)
(* Data are integers: coordinates are taken from Points, whose pairwise    *)
(* Euclidean distances are whole numbers, and the continuous variables y   *)
(* and d range over integer grids.  Every constraint on y and d is a       *)
(* difference constraint with integer coefficients, so a real solution     *)
(* exists exactly when an integer one does.                                *)
(***************************************************************************)
EXTENDS Integers, FiniteSets, Sequences, TLC

VARIABLES input, pc, travel_times, M, status, x, y, balance, solution_info,
          returned

vars == <<input, pc, travel_times, M, status, x, y, balance, solution_info,
          returned>>

-----------------------------------------------------------------------------
(* Bounds of the explored inputs.                                          *)

MaxCustomers == 3
MaxVehicles == 2
MaxTime == 2
MaxWeight == 2
MaxService == 1

(* Largest number of customer/vehicle pairs of an explored instance.       *)
MaxPairs == 6

Points == {<<0, 0>>, <<1, 0>>}
Depot == <<0, 0>>
Formulations == {"base", "balanced"}

(* Gurobi status codes (GRB.LOADED, GRB.OPTIMAL, GRB.INFEASIBLE,           *)
(* GRB.INF_OR_UNBD).                                                       *)
LOADED == 1
OPTIMAL == 2
INFEASIBLE == 3
INF_OR_UNBD == 4

-----------------------------------------------------------------------------
(* Index sets of solve_vrp.                                                *)

C(n) == 1..n
K(k) == 0..(k - 1)
V(n) == 0..n

NumCustomers(in) == Len(in.weights)
Cs(in) == C(NumCustomers(in))
Vs(in) == V(NumCustomers(in))
Ks(in) == K(in.num_vehicles)

(* Python arrays are 0-based, sequences 1-based.                           *)
Location(in, i) == in.locations[i + 1]
Weight(in, i) == in.weights[i]
Service(in, i) == in.service_times[i + 1]
Earliest(in, i) == in.time_windows[i][1]
Latest(in, i) == in.time_windows[i][2]

Max(a, b) == IF a >= b THEN a ELSE b

RECURSIVE SumSeq(_)
SumSeq(s) == IF s = <<>> THEN 0 ELSE Head(s) + SumSeq(Tail(s))

RECURSIVE SumOver(_, _)
SumOver(f, S) ==
    IF S = {} THEN 0
    ELSE LET e == CHOOSE e \in S : TRUE IN f[e] + SumOver(f, S \ {e})

-----------------------------------------------------------------------------
(* Travel times: np.sqrt(np.sum((locations[i] - locations[j])**2)).         *)

RECURSIVE SqrtFrom(_, _)
SqrtFrom(n, r) == IF (r + 1) * (r + 1) > n THEN r ELSE SqrtFrom(n, r + 1)

Sqrt(n) == SqrtFrom(n, 0)

Distance(p, q) ==
    Sqrt((p[1] - q[1]) * (p[1] - q[1]) + (p[2] - q[2]) * (p[2] - q[2]))

TravelTimes(in) ==
    [a \in {a \in Vs(in) \X Vs(in) : a[1] # a[2]} |->
        Distance(Location(in, a[1]), Location(in, a[2]))]

BigM(in, tt) == 2 * SumOver(tt, DOMAIN tt) + 2 * SumSeq(in.service_times)

-----------------------------------------------------------------------------
(* Solver variables.  x is kept as the set of arcs <<i, j, k>> whose binary *)
(* x[i,j,k] is 1; every other x[i,j,k] is 0.  z[i,k] is tied to x by        *)
(* constraint 9, so it is written as the expression it equals.             *)

xv(xs, i, j, k) == IF <<i, j, k>> \in xs THEN 1 ELSE 0

InFlow(xs, n, i, k) == Cardinality({j \in V(n) \ {i} : <<j, i, k>> \in xs})
OutFlow(xs, n, i, k) == Cardinality({j \in V(n) \ {i} : <<i, j, k>> \in xs})
DepotOut(xs, n, k) == Cardinality({j \in C(n) : <<0, j, k>> \in xs})
DepotIn(xs, n, k) == Cardinality({j \in C(n) : <<j, 0, k>> \in xs})

zv(xs, n, i, k) == InFlow(xs, n, i, k)

(* Objective: sum of travel_times[i,j] * x[i,j,k].                          *)
TravelCost(tt, xs) ==
    SumOver([a \in xs |-> tt[<<a[1], a[2]>>]], xs)

(* 1. Each customer is served exactly once.                                *)
Constraint1(xs, n, k) ==
    \A i \in C(n) :
        Cardinality({a \in xs : a[2] = i}) = 1

(* Flow conservation taken over the whole fleet instead of per vehicle.    *)
Constraint2_FleetWide(xs, n, k) ==
    \A i \in C(n) :
        Cardinality({a \in xs : a[2] = i}) = Cardinality({a \in xs : a[1] = i})

(* 2. Flow conservation for customers.                                     *)
Constraint2(xs, n, k) ==
    \A i \in C(n) : \A v \in K(k) :
        InFlow(xs, n, i, v) = OutFlow(xs, n, i, v)

(* 3. Depot flow: as many returns as departures, at most one departure.    *)
Constraint3(xs, n, k) ==
    \A v \in K(k) :
        /\ DepotOut(xs, n, v) = DepotIn(xs, n, v)
        /\ DepotOut(xs, n, v) <= 1

(* module4.py only: every vehicle leaves the depot exactly once.           *)
ForceAllVehicles(xs, n, k) ==
    \A v \in K(k) : DepotOut(xs, n, v) = 1

(* The arc assignments tried: one incoming arc per customer (the shape     *)
(* constraint 1 asks for) and any set of arcs back to the depot.           *)
ArcCandidates(n, k) ==
    { {<<f[i][1], i, f[i][2]>> : i \in C(n)} \cup {<<r[1], 0, r[2]>> : r \in R} :
        f \in {g \in [C(n) -> V(n) \X K(k)] : \A i \in C(n) : g[i][1] # i},
        R \in SUBSET (C(n) \X K(k)) }

Sizes ==
    {s \in (0..MaxCustomers) \X (1..MaxVehicles) : s[1] * s[2] <= MaxPairs}

(* The assignments that satisfy the routing constraints 1-3, which depend  *)
(* on the instance only through its size and formulation: one entry        *)
(* <<n, k, formulation, assignments>> per size and formulation.            *)
RoutingTable ==
    {<<s[1][1], s[1][2], s[2],
       {xs \in ArcCandidates(s[1][1], s[1][2]) :
            /\ Constraint1(xs, s[1][1], s[1][2])
            /\ Constraint2(xs, s[1][1], s[1][2])
            /\ Constraint3(xs, s[1][1], s[1][2])
            /\ (s[2] = "balanced" => ForceAllVehicles(xs, s[1][1], s[1][2]))}>> :
        s \in Sizes \X Formulations}

RoutingSolutions(n, k, f) ==
    (CHOOSE t \in RoutingTable : t[1] = n /\ t[2] = k /\ t[3] = f)[4]

(* Capacity taken over the whole fleet instead of per vehicle.             *)
Constraint4_FleetWide(in, xs) ==
    SumSeq(in.weights) <= in.num_vehicles * in.vehicle_capacity

(* Capacity counting customers instead of their weights.                   *)
Constraint4_Unweighted(in, xs) ==
    \A k \in Ks(in) :
        SumOver([i \in Cs(in) |-> InFlow(xs, NumCustomers(in), i, k)], Cs(in))
            <= in.vehicle_capacity

(* 4. Vehicle capacity.                                                    *)
Constraint4(in, xs) ==
    \A k \in Ks(in) :
        SumOver([i \in Cs(in) |->
                    Weight(in, i) * InFlow(xs, NumCustomers(in), i, k)], Cs(in))
            <= in.vehicle_capacity

(* 9. z[i,k] equals the number of arcs of k into i, and z is binary.       *)
Constraint9(in, xs) ==
    \A i \in Cs(in) : \A k \in Ks(in) :
        zv(xs, NumCustomers(in), i, k) \in {0, 1}

(* Restrictions with the bound 3 in place of 2.                            *)
Constraint11_AtMostThree(in, xs) ==
    \A t \in 1..Len(in.restricted_customers) : \A k \in Ks(in) :
        LET r == in.restricted_customers[t]
            n == NumCustomers(in)
        IN  zv(xs, n, r[1], k) + zv(xs, n, r[2], k) + zv(xs, n, r[3], k) <= 3

(* 11. Customer service restrictions.                                      *)
Constraint11(in, xs) ==
    \A t \in 1..Len(in.restricted_customers) : \A k \in Ks(in) :
        LET r == in.restricted_customers[t]
            n == NumCustomers(in)
        IN  zv(xs, n, r[1], k) + zv(xs, n, r[2], k) + zv(xs, n, r[3], k) <= 2

-----------------------------------------------------------------------------
(* Continuous variables.  y[i,k] and d[j,k] have Gurobi's default lower    *)
(* bound 0.  yk is the column y[.,k] of one vehicle; the constraints on y  *)
(* and d never mix two vehicles.  A served customer starts no later than   *)
(* its latest time, at most MaxTime, and with the time constraints of      *)
(* every unvisited node slack by M the least solution stays below that     *)
(* too, so the grid 0..MaxTime loses no feasible assignment.               *)

TimeGrid == 0..MaxTime
DurationGrid == 0..(2 * MaxTime + MaxService + 1)

(* 5. Time propagation with Big-M (arcs back to the depot excluded).       *)
Constraint5(in, tt, bigM, xs, k, yk) ==
    \A i \in Vs(in) : \A j \in Vs(in) :
        (i # j /\ j # 0) =>
            yk[j] >= yk[i] + tt[<<i, j>>] + Service(in, i)
                        - bigM * (1 - xv(xs, i, j, k))

(* 6. Route duration.                                                      *)
Constraint6(in, tt, bigM, xs, k, yk, j, dj) ==
    dj >= yk[j] + Service(in, j) + tt[<<j, 0>>] - bigM * (1 - xv(xs, j, 0, k))

(* 7. Initial departure from the depot.                                    *)
Constraint7(yk) == yk[0] = 0

(* Maximum route duration with + in place of *.                            *)
Constraint8_Sum(in, xs, k, j, dj) == dj <= in.t_max + xv(xs, j, 0, k)

(* 8. Maximum route duration.                                              *)
Constraint8(in, xs, k, j, dj) == dj <= in.t_max * xv(xs, j, 0, k)

(* Time windows whose upper bound is relaxed by M for every vehicle.       *)
Constraint10_AlwaysRelaxed(in, bigM, xs, k, yk) ==
    \A i \in Cs(in) :
        LET z == zv(xs, NumCustomers(in), i, k)
        IN  /\ yk[i] >= Earliest(in, i) * z
            /\ yk[i] <= Latest(in, i) + bigM

(* 10. Time windows.                                                       *)
Constraint10(in, bigM, xs, k, yk) ==
    \A i \in Cs(in) :
        LET z == zv(xs, NumCustomers(in), i, k)
        IN  /\ yk[i] >= Earliest(in, i) * z
            /\ yk[i] <= Latest(in, i) + bigM * (1 - z)

(* The columns y[.,k] tried, with y[0,k] taken from constraint 7: one      *)
(* entry <<n, columns>> per number of customers.                           *)
YColumnTable ==
    {<<n, {[i \in V(n) |-> IF i = 0 THEN 0 ELSE yc[i]] : yc \in [C(n) -> TimeGrid]}>> :
        n \in 0..MaxCustomers}

YColumns(in) ==
    (CHOOSE t \in YColumnTable : t[1] = NumCustomers(in))[2]

(* yk satisfies the constraints on y[.,k], and some d[.,k] those on d.     *)
TimeConstraints(in, tt, bigM, xs, k, yk) ==
    /\ Constraint7(yk)
    /\ Constraint10(in, bigM, xs, k, yk)
    /\ Constraint5(in, tt, bigM, xs, k, yk)
    /\ \A j \in Cs(in) : \E dj \in DurationGrid :
          /\ Constraint6(in, tt, bigM, xs, k, yk, j, dj)
          /\ Constraint8(in, xs, k, j, dj)

FeasibleY(in, tt, bigM, xs, k) ==
    {yk \in YColumns(in) : TimeConstraints(in, tt, bigM, xs, k, yk)}

(* The nodes vehicle k touches: the only y[i,k] the decoding can read.     *)
Touched(xs, k) ==
    {0} \cup {a[1] : a \in {b \in xs : b[3] = k}}
        \cup {a[2] : a \in {b \in xs : b[3] = k}}

Restrict(f, S) == [e \in S |-> f[e]]

(* The values of y[.,k] on the nodes k touches, over all solutions.        *)
TouchedY(in, tt, bigM, xs, k) ==
    {Restrict(yk, Touched(xs, k)) : yk \in FeasibleY(in, tt, bigM, xs, k)}

(* The arc assignments that extend to a solution of the whole model.       *)
FeasibleX(in, tt, bigM) ==
    {xs \in RoutingSolutions(NumCustomers(in), in.num_vehicles,
                              in.formulation) :
        /\ Constraint4(in, xs)
        /\ Constraint9(in, xs)
        /\ Constraint11(in, xs)
        /\ \A k \in Ks(in) : \E yk \in YColumns(in) :
              TimeConstraints(in, tt, bigM, xs, k, yk)}

MinCost(tt, F) ==
    CHOOSE c \in {TravelCost(tt, xs) : xs \in F} :
        \A xs \in F : c <= TravelCost(tt, xs)

(* What model.optimize() may leave in x.  The base model minimises travel  *)
(* time.  The balanced model minimises it first and then the sum of dev[k] *)
(* over the assignments within 5% of that minimum; T[k] is bounded only    *)
(* from below, so every assignment reaches a deviation sum of 0 and all    *)
(* of them within the tolerance are optimal.                               *)
OptimalX(in, tt, F) ==
    LET best == MinCost(tt, F)
    IN  IF in.formulation = "base"
        THEN {xs \in F : TravelCost(tt, xs) = best}
        ELSE {xs \in F : 100 * TravelCost(tt, xs) <= 105 * best}

(* y as a sequence over the vehicles, entry k + 1 for vehicle k.           *)
RECURSIVE SolutionY(_, _, _, _, _)
SolutionY(in, tt, bigM, xs, k) ==
    IF k = 0 THEN {<<>>}
    ELSE {Append(ys, yk) : ys \in SolutionY(in, tt, bigM, xs, k - 1),
                           yk \in TouchedY(in, tt, bigM, xs, k - 1)}

-----------------------------------------------------------------------------
(* Decoding of the solved values (the OPTIMAL branch of solve_vrp).        *)
(* The workload balancing variables of module4.py follow the decoding of   *)
(* the route durations, which bound them from below.                       *)

(* The successor searched among the customers only (for j in C).           *)
NextNodes_CustomersOnly(in, xs, k, current) ==
    {j \in Cs(in) : j # current /\ xv(xs, current, j, k) = 1}

(* for j in V: if j != current and x[current,j,k].X > 0.5: ... break       *)
NextNodes(in, xs, k, current) ==
    {j \in Vs(in) : j # current /\ xv(xs, current, j, k) = 1}

Min(S) == CHOOSE e \in S : \A o \in S : e <= o

(* The while loop that follows the arcs of vehicle k from the depot.  The  *)
(* loop has no bound of its own; steps counts its iterations.  After more  *)
(* than limit iterations that did not end it, it has come back to a        *)
(* customer and repeats for ever: the walk is reported with end "running". *)
RECURSIVE FollowRoute(_, _, _, _, _, _, _, _)
FollowRoute(in, xs, ys, k, current, route, times, steps) ==
    LET next == NextNodes(in, xs, k, current)
        limit == NumCustomers(in)
    IN  IF steps > limit
        THEN [route |-> route, times |-> times, end |-> "running", steps |-> steps]
        ELSE IF next = {}
        THEN [route |-> route, times |-> times, end |-> "none", steps |-> steps + 1]
        ELSE LET j == Min(next)
                 r == Append(route, j)
                 t == IF j # 0 THEN Append(times, ys[k + 1][j]) ELSE times
             IN  IF j = 0
                 THEN [route |-> r, times |-> t, end |-> "depot", steps |-> steps + 1]
                 ELSE FollowRoute(in, xs, ys, k, j, r, t, steps + 1)

VehicleUsed(in, xs, k) == \E j \in Cs(in) : xv(xs, 0, j, k) = 1

Walk(in, xs, ys, k) == FollowRoute(in, xs, ys, k, 0, <<0>>, <<0>>, 0)

(* routes and starting_times, one entry per vehicle that leaves the depot. *)
RECURSIVE Walks(_, _, _, _)
Walks(in, xs, ys, k) ==
    IF k = 0 THEN <<>>
    ELSE LET rest == Walks(in, xs, ys, k - 1)
         IN  IF VehicleUsed(in, xs, k - 1)
             THEN Append(rest, Walk(in, xs, ys, k - 1))
             ELSE rest

Load(in, xs, k) ==
    SumOver([i \in Cs(in) |->
                Weight(in, i) * InFlow(xs, NumCustomers(in), i, k)], Cs(in))

(* vehicle_loads: the loads that are positive, in vehicle order.           *)
RECURSIVE VehicleLoads(_, _, _)
VehicleLoads(in, xs, k) ==
    IF k = 0 THEN <<>>
    ELSE LET rest == VehicleLoads(in, xs, k - 1)
         IN  IF Load(in, xs, k - 1) > 0
             THEN Append(rest, Load(in, xs, k - 1))
             ELSE rest

RECURSIVE MaxOver(_, _)
MaxOver(f, S) ==
    IF S = {} THEN 0
    ELSE LET e == CHOOSE e \in S : TRUE IN Max(f[e], MaxOver(f, S \ {e}))

(* max_duration of vehicle k over the customers j with x[j,0,k].X > 0.5.   *)
MaxDuration(in, tt, xs, ys, k) ==
    LET last == {j \in Cs(in) : xv(xs, j, 0, k) = 1}
    IN  MaxOver([j \in last |-> ys[k + 1][j] + Service(in, j) + tt[<<j, 0>>]],
                last)

(* route_durations: the durations that are positive, in vehicle order.     *)
RECURSIVE RouteDurations(_, _, _, _, _)
RouteDurations(in, tt, xs, ys, k) ==
    IF k = 0 THEN <<>>
    ELSE LET rest == RouteDurations(in, tt, xs, ys, k - 1)
         IN  IF MaxDuration(in, tt, xs, ys, k - 1) > 0
             THEN Append(rest, MaxDuration(in, tt, xs, ys, k - 1))
             ELSE rest

Abs(v) == IF v < 0 THEN 0 - v ELSE v

(* The values tried for T[k], T_avg and dev[k]: those a route duration can *)
(* take (a start within TimeGrid, the service and the way back).  Nothing  *)
(* bounds T[k] from above.                                                 *)
BalanceGrid == 0..(MaxTime + MaxService + 1)

(* The duration the decoding computes for every vehicle, unfiltered.       *)
RECURSIVE Durations(_, _, _, _, _)
Durations(in, tt, xs, ys, k) ==
    IF k = 0 THEN <<>>
    ELSE Append(Durations(in, tt, xs, ys, k - 1),
                MaxDuration(in, tt, xs, ys, k - 1))

(* module4.py: T[k] >= d[j,k] for every customer j.  d[j,k] is 0 unless j  *)
(* closes the route of k, and then it is at least the time k is back at    *)
(* the depot and otherwise free up to t_max: the least d leaves T[k] at    *)
(* least the duration the decoding computes.                               *)
LinkDuration(durations, T) ==
    \A k \in DOMAIN T : T[k] >= durations[k]

(* T_avg * num_vehicles == sum of T[k].                                    *)
AverageDuration(T, avg) == avg * Len(T) = SumSeq(T)

(* dev[k] >= T[k] - T_avg and dev[k] >= T_avg - T[k].                      *)
Deviation(T, avg, dev) ==
    \A k \in DOMAIN T :
        /\ dev[k] >= T[k] - avg
        /\ dev[k] >= avg - T[k]

(* The values of T, T_avg and dev that satisfy the constraints among       *)
(* themselves: one entry <<k, values>> per number of vehicles.  dev[k] is  *)
(* listed at its least value, where every minimum of the sum of dev has    *)
(* it.                                                                     *)
BalanceTable ==
    {<<k, {b \in {[T |-> T, T_avg |-> avg,
                   dev |-> [v \in 1..k |-> Abs(T[v] - avg)]] :
                      T \in [1..k -> BalanceGrid], avg \in BalanceGrid} :
              /\ AverageDuration(b.T, b.T_avg)
              /\ Deviation(b.T, b.T_avg, b.dev)}>> :
        k \in 1..MaxVehicles}

BalanceCandidates(k) == (CHOOSE t \in BalanceTable : t[1] = k)[2]

(* The secondary objective: the values that go with x and y and have the   *)
(* least sum of dev[k].                                                    *)
BalanceSolutions(in, tt, xs, ys) ==
    LET durations == Durations(in, tt, xs, ys, in.num_vehicles)
        linked == {b \in BalanceCandidates(in.num_vehicles) :
                      LinkDuration(durations, b.T)}
        best == Min({SumSeq(b.dev) : b \in linked})
    IN  {b \in linked : SumSeq(b.dev) = best}

NoBalance == [T |-> <<>>, T_avg |-> 0, dev |-> <<>>]

TotalServiceTime(in, xs) ==
    SumOver([i \in Cs(in) |->
                Service(in, i) * Cardinality({a \in xs : a[2] = i})], Cs(in))

(* sum(vehicle_loads) / (len(routes) * vehicle_capacity), as the pair of   *)
(* numerator and denominator.                                              *)
CapacityUtilization(loads, routes, capacity) ==
    <<SumSeq(loads), Len(routes) * capacity>>

(* The division when len(routes) is 0.  sum([]) is the int 0 and 0 / 0     *)
(* raises ZeroDivisionError.  A non-empty vehicle_loads sums to a float    *)
(* when weights is a list (ZeroDivisionError again) and to a numpy scalar  *)
(* when it is an array (the quotient is inf, with a warning).              *)
DivisionOutcomes(loads, routes) ==
    IF Len(routes) # 0 THEN {"value"}
    ELSE IF loads = <<>> THEN {"ZeroDivisionError"}
    ELSE {"ZeroDivisionError", "inf"}

(* The workload balance metrics module4.py adds to the record.             *)
BalanceInfo(bal) ==
    [avg_route_duration |-> bal.T_avg,
     total_deviation |-> SumSeq(bal.dev),
     max_deviation |-> MaxOver(bal.dev, DOMAIN bal.dev)]

BaseInfo(in, tt, xs, ys, outcome) ==
    LET k == in.num_vehicles
        walks == Walks(in, xs, ys, k)
        routes == [r \in 1..Len(walks) |-> walks[r].route]
        loads == VehicleLoads(in, xs, k)
    IN  [status |-> "Optimal",
         total_travel_time |-> TravelCost(tt, xs),
         total_service_time |-> TotalServiceTime(in, xs),
         total_operational_time |-> TravelCost(tt, xs) + TotalServiceTime(in, xs),
         routes |-> routes,
         starting_times |-> [r \in 1..Len(walks) |-> walks[r].times],
         vehicle_loads |-> loads,
         route_durations |-> RouteDurations(in, tt, xs, ys, k),
         vehicles_used |-> Len(routes),
         vehicles_available |-> in.num_vehicles,
         capacity_utilization |->
            IF outcome = "inf" THEN <<"inf">>
            ELSE CapacityUtilization(loads, routes, in.vehicle_capacity)]

SuccessInfo(in, tt, xs, ys, bal, outcome) ==
    IF in.formulation = "base"
    THEN BaseInfo(in, tt, xs, ys, outcome)
    ELSE BaseInfo(in, tt, xs, ys, outcome) @@ BalanceInfo(bal)

FailureInfo(st) ==
    [status |-> "No optimal solution found", model_status |-> st]

NoInfo == [status |-> "unset"]

-----------------------------------------------------------------------------
(* The explored inputs: the arguments of one solve_vrp call.  Customers    *)
(* share weight, service time and time window and differ in location;      *)
(* locations are listed in a fixed order, the constraints being the same   *)
(* for every numbering of the customers.                                   *)

Rank(p) == p[1] + 2 * p[2]

LocationLists(n) ==
    {l \in [1..(n + 1) -> Points] :
        /\ l[1] = Depot
        /\ \A i \in 2..n : Rank(l[i]) <= Rank(l[i + 1])}

Windows == {w \in TimeGrid \X TimeGrid : w[1] <= w[2]}

Restrictions(n) == IF n >= 3 THEN {<<>>, <<<<1, 2, 3>>>>} ELSE {<<>>}

Inputs ==
    UNION {
        IF s[1] = 0
        THEN {[formulation |-> f, locations |-> <<Depot>>, weights |-> <<>>,
               service_times |-> <<0>>, num_vehicles |-> s[2],
               vehicle_capacity |-> MaxWeight + 1, t_max |-> tm,
               time_windows |-> <<>>, restricted_customers |-> <<>>] :
                f \in Formulations, tm \in {MaxTime, 2 * MaxTime}}
        ELSE {[formulation |-> f, locations |-> l,
               weights |-> [i \in 1..s[1] |-> w],
               service_times |-> [i \in 1..(s[1] + 1) |-> IF i = 1 THEN 0 ELSE sv],
               num_vehicles |-> s[2],
               vehicle_capacity |-> MaxWeight + 1, t_max |-> tm,
               time_windows |-> [i \in 1..s[1] |-> tw],
               restricted_customers |-> rc] :
                f \in Formulations, l \in LocationLists(s[1]),
                w \in 1..MaxWeight, sv \in 0..MaxService,
                tm \in {MaxTime, 2 * MaxTime}, tw \in Windows,
                rc \in Restrictions(s[1])}
        : s \in Sizes}

-----------------------------------------------------------------------------
(* solve_vrp, in the phases of its body.                                   *)

Init ==
    /\ input \in Inputs
    /\ pc = "Unbuilt"
    /\ travel_times = <<>>
    /\ M = 0
    /\ status = LOADED
    /\ x = {}
    /\ y = <<>>
    /\ balance = NoBalance
    /\ solution_info = NoInfo
    /\ returned = "none"

(* Lines 21-150: travel times, variables, objective and constraints.       *)
Build ==
    /\ pc = "Unbuilt"
    /\ pc' = "Built"
    /\ travel_times' = TravelTimes(input)
    /\ M' = BigM(input, TravelTimes(input))
    /\ UNCHANGED <<input, status, x, y, balance, solution_info, returned>>

(* model.optimize(): the solver proves the model infeasible, or leaves an  *)
(* optimal solution in the variables.  No limit is set on the search.      *)
Optimize ==
    /\ pc = "Built"
    /\ pc' = "Solved"
    /\ LET F == FeasibleX(input, travel_times, M)
       IN  IF F = {}
           THEN /\ status' \in {INFEASIBLE, INF_OR_UNBD}
                /\ x' = {}
                /\ y' = <<>>
                /\ balance' = NoBalance
           ELSE /\ status' = OPTIMAL
                /\ x' \in OptimalX(input, travel_times, F)
                /\ y' \in SolutionY(input, travel_times, M, x', input.num_vehicles)
                /\ balance' \in
                      IF input.formulation = "base" THEN {NoBalance}
                      ELSE BalanceSolutions(input, travel_times, x', y')
    /\ UNCHANGED <<input, travel_times, M, solution_info, returned>>

(* The test model.status != GRB.INFEASIBLE in place of == GRB.OPTIMAL.     *)
StatusIsNotInfeasible(st) == st # INFEASIBLE

StatusIsOptimal(st) == st = OPTIMAL

(* The branch taken when model.status == GRB.OPTIMAL.                      *)
Extract ==
    /\ pc = "Solved"
    /\ returned = "none"
    /\ StatusIsOptimal(status)
    /\ LET walks == Walks(input, x, y, input.num_vehicles)
           loads == VehicleLoads(input, x, input.num_vehicles)
       IN  IF \E r \in 1..Len(walks) : walks[r].end = "running"
           THEN /\ pc' = "Extracting"
                /\ UNCHANGED <<solution_info, returned>>
           ELSE \E outcome \in DivisionOutcomes(loads, walks) :
                    IF outcome = "ZeroDivisionError"
                    THEN /\ pc' = "Faulted"
                         /\ returned' = "ZeroDivisionError"
                         /\ UNCHANGED solution_info
                    ELSE /\ pc' = "Extracted"
                         /\ returned' = "record"
                         /\ solution_info' =
                                SuccessInfo(input, travel_times, x, y, balance, outcome)
    /\ UNCHANGED <<input, travel_times, M, status, x, y, balance>>

(* The else branch: no optimal solution.                                   *)
ReportFailure ==
    /\ pc = "Solved"
    /\ returned = "none"
    /\ ~StatusIsOptimal(status)
    /\ returned' = "record"
    /\ solution_info' = FailureInfo(status)
    /\ UNCHANGED <<input, pc, travel_times, M, status, x, y, balance>>

Next == Build \/ Optimize \/ Extract \/ ReportFailure

Spec == Init /\ [][Next]_vars

-----------------------------------------------------------------------------
(* Properties of the returned record.                                      *)

Succeeded == pc = "Extracted" /\ returned = "record"

Routes == solution_info.routes

RouteCustomers(route) == {route[p] : p \in 1..Len(route)} \ {0}

Occurrences(route, i) == Cardinality({p \in 1..Len(route) : route[p] = i})

TotalOccurrences(i) ==
    SumOver([r \in 1..Len(Routes) |-> Occurrences(Routes[r], i)], 1..Len(Routes))

(* C1: whenever solve_vrp returns a success record, every customer 1..N    *)
(* occurs exactly once in all of its routes together.                      *)
C1_EveryCustomerRoutedOnce ==
    Succeeded => \A i \in Cs(input) : TotalOccurrences(i) = 1

(* C2: in every success record each route starts at the depot, ends at the *)
(* depot and has at least one customer in between.                         *)
C2_RoutesDepotToDepot ==
    Succeeded =>
        \A r \in 1..Len(Routes) :
            /\ Len(Routes[r]) >= 3
            /\ Routes[r][1] = 0
            /\ Routes[r][Len(Routes[r])] = 0

C2_Witness ==
    /\ Succeeded
    /\ Len(Routes) = 2
    /\ \E r \in 1..Len(Routes) : Len(Routes[r]) = 4

RouteLoad(in, route) ==
    SumOver([i \in RouteCustomers(route) |-> Weight(in, i)], RouteCustomers(route))

(* C3: in every success record the weights of the customers on a route sum *)
(* to at most vehicle_capacity.                                            *)
C3_RouteLoadWithinCapacity ==
    Succeeded =>
        \A r \in 1..Len(Routes) :
            RouteLoad(input, Routes[r]) <= input.vehicle_capacity

(* Two customers at one place away from the depot, too heavy together:    *)
(* one route would be shorter, and each is served by its own vehicle.      *)
C3_Witness ==
    /\ Succeeded
    /\ NumCustomers(input) = 2
    /\ Location(input, 1) = Location(input, 2)
    /\ Location(input, 1) # Depot
    /\ SumSeq(input.weights) > input.vehicle_capacity
    /\ Len(Routes) = 2

(* C4: in every success record each entry of route_durations is at most    *)
(* t_max.                                                                  *)
C4_DurationWithinTMax ==
    Succeeded =>
        \A r \in 1..Len(solution_info.route_durations) :
            solution_info.route_durations[r] <= input.t_max

C4_Witness ==
    /\ Succeeded
    /\ \E r \in 1..Len(solution_info.route_durations) :
          solution_info.route_durations[r] = input.t_max
    /\ input.t_max < MaxTime + MaxService + 1

(* C5: in every success record the start time recorded for a customer on a *)
(* route lies within that customer's time window.                          *)
C5_StartWithinWindow ==
    Succeeded =>
        \A r \in 1..Len(Routes) :
            \A p \in 2..Len(solution_info.starting_times[r]) :
                LET i == Routes[r][p]
                    start == solution_info.starting_times[r][p]
                IN  Earliest(input, i) <= start /\ start <= Latest(input, i)

C5_Witness ==
    /\ Succeeded
    /\ \E r \in 1..Len(Routes) :
          /\ Len(solution_info.starting_times[r]) = 3
          /\ solution_info.starting_times[r][2] = Latest(input, Routes[r][2])
          /\ solution_info.starting_times[r][3] = Earliest(input, Routes[r][3])
          /\ Earliest(input, Routes[r][3]) > 0
          /\ Latest(input, Routes[r][2]) < MaxTime

(* C6: in every success record no route contains all three customers of a *)
(* restriction triple.                                                     *)
C6_RestrictionRespected ==
    Succeeded =>
        \A t \in 1..Len(input.restricted_customers) :
            \A r \in 1..Len(Routes) :
                LET rc == input.restricted_customers[t]
                IN  ~({rc[1], rc[2], rc[3]} \subseteq RouteCustomers(Routes[r]))

C6_Witness ==
    /\ Succeeded
    /\ input.restricted_customers # <<>>
    /\ input.num_vehicles = 2
    /\ SumSeq(input.weights) <= input.vehicle_capacity
    /\ \E r \in 1..Len(Routes) : Cardinality(RouteCustomers(Routes[r])) = 2

(* C7: the phases follow one another as Unbuilt, Built, Solved, Extracted; *)
(* the decoding starts only from Solved with status OPTIMAL; the record is *)
(* written only after the solver has returned; and a record returned for   *)
(* any other status holds the status string and the solver's status code   *)
(* and nothing else.                                                       *)
C7_PhaseOrder ==
    [][ /\ (pc' # pc) =>
              /\ <<pc, pc'>> \in {<<"Unbuilt", "Built">>, <<"Built", "Solved">>,
                                  <<"Solved", "Extracted">>, <<"Solved", "Faulted">>,
                                  <<"Solved", "Extracting">>}
              /\ (pc = "Solved" => status = OPTIMAL)
        /\ (solution_info' # solution_info \/ returned' # returned) =>
              pc = "Solved"
        /\ (returned' = "record" /\ status' # OPTIMAL) =>
              /\ pc' = "Solved"
              /\ DOMAIN solution_info' = {"status", "model_status"}
              /\ solution_info'.status = "No optimal solution found"
              /\ solution_info'.model_status = status'
      ]_vars

C7_Witness ==
    /\ pc = "Solved"
    /\ returned = "record"
    /\ status = INF_OR_UNBD
    /\ "routes" \notin DOMAIN solution_info

(* C8: when the solve ends OPTIMAL and no vehicle leaves the depot,        *)
(* solve_vrp returns a record and raises no ZeroDivisionError.             *)
C8_ZeroVehiclesStillReturns ==
    (/\ pc \in {"Extracted", "Faulted"}
     /\ ~ \E k \in Ks(input) : VehicleUsed(input, x, k))
        => returned = "record"

(* Some split of the customers over the vehicles keeps every vehicle       *)
(* within capacity and no restriction triple on one vehicle.               *)
AssignmentExists(in) ==
    \E assign \in [Cs(in) -> Ks(in)] :
        /\ \A k \in Ks(in) :
              LET mine == {i \in Cs(in) : assign[i] = k}
              IN  SumOver([i \in mine |-> Weight(in, i)], mine)
                      <= in.vehicle_capacity
        /\ \A t \in 1..Len(in.restricted_customers) :
              LET rc == in.restricted_customers[t]
              IN  ~(assign[rc[1]] = assign[rc[2]] /\ assign[rc[2]] = assign[rc[3]])

(* C9: when no split of the customers over the vehicles satisfies capacity *)
(* and restrictions, the solver status is not OPTIMAL, no decoding takes   *)
(* place, and the record that is returned is the failure record.           *)
C9_InfeasibleReportedAsData ==
    (~AssignmentExists(input) /\ pc \notin {"Unbuilt", "Built"}) =>
        /\ pc = "Solved"
        /\ status \in {INFEASIBLE, INF_OR_UNBD}
        /\ returned \in {"none", "record"}
        /\ returned = "record" =>
              /\ "routes" \notin DOMAIN solution_info
              /\ solution_info.status # "Optimal"
              /\ solution_info.model_status = status

(* One vehicle, customers 1, 2, 3 light enough to ride together, and the   *)
(* triple (1, 2, 3).                                                       *)
C9_Witness ==
    /\ ~AssignmentExists(input)
    /\ returned = "record"
    /\ input.num_vehicles = 1
    /\ input.restricted_customers # <<>>
    /\ SumSeq(input.weights) <= input.vehicle_capacity

(* A plan in the plain sense: routes[r] is driven by one vehicle, which    *)
(* waits at a customer that is not yet open.  ReturnTime is the time the   *)
(* vehicle is back at the depot, or -1 when some window is missed.         *)
RECURSIVE ReturnTime(_, _, _, _, _)
ReturnTime(in, tt, route, p, ready) ==
    IF route[p] = 0 THEN ready
    ELSE LET i == route[p]
             start == Max(ready, Earliest(in, i))
         IN  IF start > Latest(in, i) THEN -1
             ELSE ReturnTime(in, tt, route, p + 1,
                             start + Service(in, i) + tt[<<i, route[p + 1]>>])

PlanRoute(in, xs, k) ==
    FollowRoute(in, xs, [v \in 1..in.num_vehicles |-> [j \in Vs(in) |-> 0]],
                k, 0, <<0>>, <<0>>, 0).route

PlanExists(in, tt) ==
    \E xs \in RoutingSolutions(NumCustomers(in), in.num_vehicles, "base") :
        LET used == {k \in Ks(in) : VehicleUsed(in, xs, k)}
        IN  /\ UNION {RouteCustomers(PlanRoute(in, xs, k)) : k \in used} = Cs(in)
            /\ \A k \in used :
                  LET route == PlanRoute(in, xs, k)
                      back == ReturnTime(in, tt, route, 2, tt[<<0, route[2]>>])
                  IN  /\ RouteLoad(in, route) <= in.vehicle_capacity
                      /\ back >= 0
                      /\ back <= in.t_max
                      /\ \A t \in 1..Len(in.restricted_customers) :
                            LET rc == in.restricted_customers[t]
                            IN  ~({rc[1], rc[2], rc[3]} \subseteq RouteCustomers(route))

(* C10: in the base formulation, when a plan exists that serves every      *)
(* customer once on depot-to-depot routes within capacity, time windows,   *)
(* t_max and the restrictions, the model is solved OPTIMAL.                *)
C10_BigMKeepsEveryPlan ==
    (/\ pc = "Solved"
     /\ input.formulation = "base"
     /\ PlanExists(input, travel_times))
        => status = OPTIMAL

(* The duration of the route of every vehicle, as the decoding computes    *)
(* it, scaled by the number of vehicles to keep the mean an integer.       *)
Duration(k) == MaxDuration(input, travel_times, x, y, k)

SumDurations == SumOver([k \in Ks(input) |-> Duration(k)], Ks(input))

ScaledSpread(k) == Abs(input.num_vehicles * Duration(k) - SumDurations)

(* C11: in every success record of the balanced formulation,               *)
(* avg_route_duration is the mean of the vehicles' route durations, and    *)
(* total_deviation and max_deviation are the sum and the maximum over the  *)
(* vehicles of the distance between a vehicle's route duration and that    *)
(* mean.                                                                   *)
C11_BalanceMetricsMeasureSpread ==
    (Succeeded /\ input.formulation = "balanced") =>
        /\ solution_info.avg_route_duration * input.num_vehicles = SumDurations
        /\ solution_info.total_deviation * input.num_vehicles
              = SumOver([k \in Ks(input) |-> ScaledSpread(k)], Ks(input))
        /\ solution_info.max_deviation * input.num_vehicles
              = MaxOver([k \in Ks(input) |-> ScaledSpread(k)], Ks(input))

VehiclesLeaving == Cardinality({k \in Ks(input) : VehicleUsed(input, x, k)})

(* C12: in the base and in the balanced formulation, an instance with more *)
(* vehicles than customers for which a plan exists is solved OPTIMAL, and  *)
(* fewer vehicles leave the depot than are available.                      *)
C12_SpareVehiclesStayUnused ==
    (/\ pc \notin {"Unbuilt", "Built"}
     /\ input.num_vehicles > NumCustomers(input)
     /\ PlanExists(input, travel_times))
        => /\ status = OPTIMAL
           /\ VehiclesLeaving < input.num_vehicles
           /\ Succeeded => solution_info.vehicles_used < solution_info.vehicles_available

(* The duration of routes[r] of the record: the recorded start at its last *)
(* customer, the service there and the travel back to the depot.           *)
RecordedDuration(r) ==
    LET route == Routes[r]
        times == solution_info.starting_times[r]
        last == route[Len(route) - 1]
    IN  times[Len(times)] + Service(input, last) + travel_times[<<last, 0>>]

(* C13: in every success record routes, starting_times, vehicle_loads and  *)
(* route_durations have vehicles_used entries each, and entry r of each    *)
(* describes the same vehicle: vehicle_loads[r] is the weight of the       *)
(* customers on routes[r] and route_durations[r] the duration of           *)
(* routes[r].                                                              *)
C13_RecordListsAligned ==
    Succeeded =>
        /\ Len(Routes) = solution_info.vehicles_used
        /\ Len(solution_info.starting_times) = solution_info.vehicles_used
        /\ Len(solution_info.vehicle_loads) = solution_info.vehicles_used
        /\ Len(solution_info.route_durations) = solution_info.vehicles_used
        /\ \A r \in 1..Len(Routes) :
              /\ solution_info.vehicle_loads[r] = RouteLoad(input, Routes[r])
              /\ solution_info.route_durations[r] = RecordedDuration(r)

-----------------------------------------------------------------------------
(* The decoding on its own: the OPTIMAL branch applied to every arc        *)
(* assignment that satisfies constraints 1, 2, 3 and 9, whether or not it  *)
(* is optimal or meets the capacity and time constraints.  The loop reads  *)
(* x and the sizes only; y is taken as 0 throughout.                       *)

DecodeInputs ==
    {in \in Inputs :
        /\ in.formulation = "base"
        /\ in.t_max = MaxTime
        /\ in.restricted_customers = <<>>
        /\ \A i \in Cs(in) :
              /\ Weight(in, i) = 1
              /\ Service(in, i) = 0
              /\ in.time_windows[i] = <<0, MaxTime>>}

DecodeInit ==
    /\ input \in DecodeInputs
    /\ pc = "Solved"
    /\ travel_times = TravelTimes(input)
    /\ M = BigM(input, TravelTimes(input))
    /\ status = OPTIMAL
    /\ x \in {xs \in RoutingSolutions(NumCustomers(input), input.num_vehicles,
                                        input.formulation) :
                 Constraint9(input, xs)}
    /\ y = [k \in 1..input.num_vehicles |-> [i \in Vs(input) |-> 0]]
    /\ balance = NoBalance
    /\ solution_info = NoInfo
    /\ returned = "none"

DecodeSpec == DecodeInit /\ [][Extract]_vars

(* C14: for every arc assignment that satisfies the exactly-once, flow     *)
(* conservation, depot flow and linkage constraints, the loop that follows *)
(* the arcs of a used vehicle ends, after at most N + 1 steps, because the *)
(* arc it followed returns to the depot, and it visits no customer twice.  *)
C14_WalkEndsAtDepot ==
    /\ pc # "Extracting"
    /\ Succeeded =>
          \A r \in 1..Len(Routes) :
              /\ Len(Routes[r]) - 1 <= NumCustomers(input) + 1
              /\ Routes[r][Len(Routes[r])] = 0
              /\ \A i \in Cs(input) : Occurrences(Routes[r], i) <= 1

(* A vehicle that visits every customer, not in the order of their numbers, *)
(* and takes all N + 1 steps.                                              *)
C14_Witness ==
    /\ Succeeded
    /\ NumCustomers(input) = MaxCustomers
    /\ \E r \in 1..Len(Routes) :
          /\ Len(Routes[r]) = NumCustomers(input) + 2
          /\ Routes[r][2] > Routes[r][3]

====
